---- MODULE Spec2Model ----
(***************************************************************************)
(* Vangariwala waste-management PWA: waste submission, ledger accounting   *)
(* and pickup-request matching (src/waste.js, src/app.js, src/dashboard.js)*)
(*                                                                         *)
(* Units.  JavaScript numbers are modelled in fixed point with exact       *)
(* decimal arithmetic: weights in hundredths of a kilogram, emissions and  *)
(* catalog values in hundredths, points / estimated value / earnings /     *)
(* jobs as integers.  Math.round is round-half-up.                         *)
(*                                                                         *)
(* Two values of JavaScript that are not numbers are kept apart:           *)
(*   Undef : a field that is absent (undefined)                            *)
(*   NaN   : the result of arithmetic on undefined                         *)
(* Both are falsy, so (x || 0) maps them to 0.                             *)
(***************************************************************************)
EXTENDS Integers, Sequences, FiniteSets, TLC

VARIABLES
  supabase,      \* Auth.supabase: TRUE when the Supabase client was created
  currentUser,   \* Auth.currentUser: NoUser or the in-memory profile object
  session,       \* localStorage[vangariwala_session]
  users,         \* localStorage[vangariwala_users], keyed by profile id
  submissions,   \* localStorage[user_submissions]
  requests,      \* localStorage[pickup_requests]
  wasteData,     \* Waste.wasteData
  inflight,      \* Auth.updateUser calls suspended at the await of line 1287
  sentBy,        \* for each suspended call, the profile id in the data it sent
                 \* to Supabase (line 1289)
  nextId,        \* number of identifiers handed out by Utils.generateId
  now,           \* the clock read by new Date()
  listed,        \* the request items rendered in #requests-container
  toast,         \* the last call of a Waste operation: its argument and the
                 \* result it reported through UI.showToast
  initialized,   \* the modules whose init() has completed, in order
  supabaseSession, \* the profile id of the session the Supabase client
                 \* holds, "null" when it holds none
  dashboardUser, \* Dashboard.currentUser: the id of the profile it refers
                 \* to, "null" when it is null
  dynamicCache,  \* the service worker's dynamic cache: its keys, in the
                 \* order cache.keys() returns them (insertion order)
  fetches        \* the fetch handlers of the service worker that are
                 \* suspended at an await

vars == <<supabase, currentUser, session, users, submissions, requests,
          wasteData, inflight, sentBy, nextId, now, listed, toast,
          initialized, supabaseSession, dashboardUser, dynamicCache, fetches>>

----------------------------------------------------------------------------
(* Bounds of the model *)

MaxSubmissions == 2
MaxRequests == 1
MaxJobs == 2
MaxInflight == 1
MaxTime == 1
MaxListed == 3

----------------------------------------------------------------------------
(* JavaScript values *)

Undef == -2
NaN == -1
UndefStr == "undefined"

\* (x || 0) for a number-or-absent x
OrZero(x) == IF x \in {Undef, NaN, 0} THEN 0 ELSE x

\* a + b on JavaScript numbers: undefined and NaN poison the sum
Plus(a, b) == IF a \in {Undef, NaN} \/ b \in {Undef, NaN} THEN NaN ELSE a + b

\* Math.round(n / d) for n >= 0, d > 0
RoundDiv(n, d) == (2 * n + d) \div (2 * d)

\* Math.round(x * 100) / 100 on a value already held in hundredths
Round2(x) == IF x \in {Undef, NaN} THEN NaN ELSE x

\* JSON.stringify followed by JSON.parse of a number field: NaN becomes null,
\* which every later (x || 0) treats like an absent field
JsonNum(x) == IF x = NaN THEN Undef ELSE x

----------------------------------------------------------------------------
(* Catalog: CONFIG.WASTE_TYPES *)

WasteTypes == {"organic", "plastic", "paper", "metal", "glass", "electronic"}

\* points_factor
PointsFactor(t) ==
  CASE t = "metal" -> 15
    [] t = "glass" -> 12
    [] t = "electronic" -> 20
    [] OTHER -> 10

\* co2_factor, in tenths
CO2Factor10(t) ==
  CASE t = "organic" -> 6
    [] t = "plastic" -> 12
    [] t = "paper" -> 4
    [] t = "metal" -> 1
    [] t = "glass" -> 1
    [] OTHER -> 8

\* price_per_kg
PricePerKg(t) ==
  CASE t = "organic" -> 3
    [] t = "plastic" -> 12
    [] t = "paper" -> 8
    [] t = "metal" -> 45
    [] t = "glass" -> 6
    [] OTHER -> 85

\* Utils.calculateWastePoints: Math.round(weight * points_factor), 0 if unknown
calculateWastePoints(t, w) ==
  IF t \in WasteTypes THEN RoundDiv(w * PointsFactor(t), 100) ELSE 0

\* variant: the emissions are cut to 2 decimals, not rounded
calculateCO2SavedTruncated(t, w) ==
  IF t \in WasteTypes THEN (w * CO2Factor10(t)) \div 10 ELSE 0

\* Utils.calculateCO2Saved: round to 2 decimals of weight * co2_factor
calculateCO2Saved(t, w) ==
  IF t \in WasteTypes THEN RoundDiv(w * CO2Factor10(t), 10) ELSE 0

\* Utils.calculateTakaEarnings: round to 2 decimals of weight * price_per_kg
calculateTakaEarnings(t, w) ==
  IF t \in WasteTypes THEN w * PricePerKg(t) ELSE 0

----------------------------------------------------------------------------
(* The waste form: one input per waste-type card *)

\* the cards of the page whose inputs the model fills in
Cards == {"plastic", "paper", "metal"}

\* the values typed into the inputs (hundredths of a kilogram)
Form(pl, pa, me) == [c \in Cards |->
  CASE c = "plastic" -> pl [] c = "paper" -> pa [] OTHER -> me]

FormChoices == { Form(0, 0, 0),        \* all inputs empty or 0
                 Form(200, 100, 0) }   \* 2 kg plastic, 1 kg paper

RECURSIVE SumOver(_, _)
SumOver(f, S) ==
  IF S = {} THEN 0
  ELSE LET c == CHOOSE x \in S : TRUE IN f[c] + SumOver(f, S \ {c})

\* Waste.getWasteTypeBreakdown
getWasteTypeBreakdown(form) ==
  [c \in {x \in DOMAIN form : form[x] > 0} |->
     [weight      |-> form[c],
      points      |-> calculateWastePoints(c, form[c]),
      co2_saved   |-> calculateCO2Saved(c, form[c]),
      taka_earned |-> calculateTakaEarnings(c, form[c])]]

\* the value Waste.wasteData is given by Waste.updateWasteSummary
Summary(form) ==
  LET inc == {c \in DOMAIN form : form[c] > 0} IN
  [totalWeight |-> SumOver(form, inc),
   totalPoints |-> SumOver([c \in inc |-> calculateWastePoints(c, form[c])], inc),
   totalCO2    |-> SumOver([c \in inc |-> calculateCO2Saved(c, form[c])], inc),
   totalTaka   |-> SumOver([c \in inc |-> calculateTakaEarnings(c, form[c])], inc),
   wasteTypes  |-> getWasteTypeBreakdown(form)]

\* waste_types of a record built from the initial wasteData: undefined
UndefTypes == [c \in {UndefStr} |-> Undef]

\* Waste.wasteData as constructed: the empty object, every field undefined
EmptyWasteData ==
  [totalWeight |-> Undef, totalPoints |-> Undef, totalCO2 |-> Undef,
   totalTaka |-> Undef, wasteTypes |-> UndefTypes]

----------------------------------------------------------------------------
(* Profiles: the records of localStorage[vangariwala_users] *)

Actors == {"h1", "h2", "c1", "c2"}

UserType(a) == IF a \in {"h1", "h2"} THEN "household" ELSE "collector"

\* every stored e-mail address passed Utils.validateEmail, so it contains '@'
EmailOf(a) ==
  CASE a = "h1" -> "h1@example.com"
    [] a = "h2" -> "h2@example.com"
    [] a = "c1" -> "c1@example.com"
    [] OTHER -> "c2@example.com"

\* email.includes('@')
IncludesAt(email) == email \in {EmailOf(a) : a \in Actors}

\* the actors by role
Households == {a \in Actors : UserType(a) = "household"}
Collectors == {a \in Actors : UserType(a) = "collector"}

\* the actors who log in in runs of Spec: one household, both collectors
OneHousehold == Collectors \cup {"h1"}

\* the contact fields a profile can be edited to (Dashboard.saveProfile)
Contacts == { [name |-> "Karim", phone |-> "", address |-> "Uttara"] }

\* the profile Auth.handleSignup stores for a new user
SignupProfile(a) ==
  [id         |-> a,
   email      |-> EmailOf(a),
   name       |-> "Rahul",
   phone      |-> "01712345678",
   address    |-> "Dhanmondi 27",
   user_type  |-> UserType(a),
   points     |-> 0,
   co2_saved  |-> 0,
   earnings   |-> IF UserType(a) = "collector" THEN 0 ELSE Undef,
   jobs_today |-> IF UserType(a) = "collector" THEN 0 ELSE Undef]

\* Auth.currentUser = null; localStorage key absent
NoUser ==
  [id |-> "null", email |-> "null", name |-> "null", phone |-> "null",
   address |-> "null", user_type |-> "null", points |-> Undef,
   co2_saved |-> Undef, earnings |-> Undef, jobs_today |-> Undef]

LedgerFields == {"points", "co2_saved", "earnings", "jobs_today"}

\* Object.assign(user, updates)
ObjectAssign(user, updates) ==
  [f \in DOMAIN user |-> IF f \in DOMAIN updates THEN updates[f] ELSE user[f]]

\* JSON.stringify / JSON.parse of a profile (Utils.storage.set, Utils.storage.get)
JsonUser(user) ==
  [f \in DOMAIN user |-> IF f \in LedgerFields THEN JsonNum(user[f]) ELSE user[f]]

\* variant: every caller counts as authenticated
isAuthenticatedAlways(user) == TRUE

\* Auth.isAuthenticated
isAuthenticated(user) == user # NoUser

\* Auth.saveDemoUser: replace the stored profile with the same id
saveDemoUser(store, user) == [store EXCEPT ![user.id] = JsonUser(user)]

\* does Auth.updateUser suspend at the await of the Supabase call?
Suspends(user) == supabase /\ IncludesAt(user.email)

\* the part of Auth.updateUser that follows the Supabase call: the profile
\* object, the session copy and the users store after it
UserAfterUpdate(user, updates) == ObjectAssign(user, updates)

UsersAfterUpdate(store, user) ==
  IF ~IncludesAt(user.email) THEN saveDemoUser(store, user) ELSE store

\* a call of a Waste operation and the result it reported
Toast(op, arg, outcome) == [op |-> op, arg |-> arg, outcome |-> outcome]

\* Remove the i-th element of a sequence
\* initSequence of VangariwalApp.initializeModules
initSequence == <<"UI", "Auth", "Dashboard", "Waste">>

\* Dashboard.init has run: its listeners for Auth's events are registered
DashboardListening == \E k \in 1..Len(initialized) : initialized[k] = "Dashboard"

\* Auth.emitEvent of 'login', 'logout' or 'userUpdated' with the profile that
\* is current afterwards: Dashboard.currentUser once its listener has run
emitEvent(user) == IF DashboardListening THEN user.id ELSE dashboardUser

RemoveAt(s, i) == [k \in 1..(Len(s) - 1) |-> IF k < i THEN s[k] ELSE s[k + 1]]

----------------------------------------------------------------------------
(* Initial state: the page has loaded, nobody is logged in, the profiles   *)
(* signed up earlier are in the users store, no submission exists.         *)

Init ==
  /\ supabase \in BOOLEAN
  /\ currentUser = NoUser
  /\ session = NoUser
  /\ users = [a \in Actors |-> SignupProfile(a)]
  /\ submissions = <<>>
  /\ requests = <<>>
  /\ wasteData = EmptyWasteData
  /\ inflight = <<>>
  /\ sentBy = <<>>
  /\ initialized = initSequence
  /\ supabaseSession = "null"
  /\ dashboardUser = currentUser.id
  /\ dynamicCache = <<>>
  /\ fetches = <<>>
  /\ nextId = 0
  /\ now = 0
  /\ listed = <<>>
  /\ toast = Toast("none", Undef, "none")

----------------------------------------------------------------------------
(* Auth *)

\* Auth.updateUser(updates) called with a user logged in: either the update
\* is applied at once, or the call suspends and is applied by ResumeUpdateUser
UpdateUserCall(updates) ==
  IF Suspends(currentUser)
  THEN /\ inflight' = Append(inflight, updates)
       /\ sentBy' = Append(sentBy, currentUser.id)
       /\ UNCHANGED <<currentUser, session, users, dashboardUser>>
  ELSE /\ currentUser' = UserAfterUpdate(currentUser, updates)
       /\ session' = JsonUser(currentUser')
       /\ users' = UsersAfterUpdate(users, currentUser')
       /\ dashboardUser' = emitEvent(currentUser')
       /\ UNCHANGED <<inflight, sentBy>>

\* the Supabase call of a suspended Auth.updateUser resolves.  With nobody
\* logged in Object.assign(null, ...) throws and the catch returns false.
ResumeUpdateUser(i) ==
  /\ i \in 1..Len(inflight)
  /\ inflight' = RemoveAt(inflight, i)
  /\ sentBy' = RemoveAt(sentBy, i)
  /\ IF currentUser = NoUser
     THEN UNCHANGED <<currentUser, session, users, dashboardUser>>
     ELSE /\ currentUser' = UserAfterUpdate(currentUser, inflight[i])
          /\ session' = JsonUser(currentUser')
          /\ users' = UsersAfterUpdate(users, currentUser')
          /\ dashboardUser' = emitEvent(currentUser')
  /\ UNCHANGED <<supabase, initialized, supabaseSession, dynamicCache, fetches,
                 submissions, requests, wasteData,
                 nextId, now, listed, toast>>

\* Auth.handleLogin with a phone number: Auth.findDemoUser, Auth.loginSuccess
Login(a) ==
  /\ a \in Actors
  /\ currentUser' = users[a]
  /\ session' = JsonUser(users[a])
  /\ dashboardUser' = emitEvent(users[a])
  /\ UNCHANGED <<supabase, initialized, supabaseSession, dynamicCache, fetches,
                 users, submissions, requests, wasteData, inflight, sentBy,
                 nextId, now, listed, toast>>

\* Auth.logout.  With a Supabase client the handler first awaits the sign-out
\* and reads nothing before the await that it uses after it, so the whole
\* handler takes effect at the moment it resumes.
Logout ==
  /\ currentUser' = NoUser
  /\ session' = NoUser
  /\ dashboardUser' = emitEvent(NoUser)
  /\ supabaseSession' = IF Suspends(currentUser) THEN "null" ELSE supabaseSession
  /\ UNCHANGED <<supabase, initialized, dynamicCache, fetches,
                 users, submissions, requests, wasteData, inflight, sentBy,
                 nextId, now, listed, toast>>

\* Dashboard.saveProfile with inputs that pass its validation
SaveProfile(c) ==
  /\ c \in Contacts
  /\ IF currentUser = NoUser
     THEN UNCHANGED <<currentUser, session, users, dashboardUser, inflight, sentBy>>
     ELSE /\ Len(inflight) < MaxInflight
          /\ UpdateUserCall(c)
  /\ UNCHANGED <<supabase, initialized, supabaseSession, dynamicCache, fetches,
                 submissions, requests, wasteData,
                 nextId, now, listed, toast>>

\* time passes
Tick ==
  /\ now < MaxTime
  /\ now' = now + 1
  /\ UNCHANGED <<supabase, initialized, supabaseSession, dynamicCache, fetches,
                 currentUser, session, users, dashboardUser, submissions, requests,
                 wasteData, inflight, sentBy, nextId, listed, toast>>

----------------------------------------------------------------------------
(* Waste: submission *)

\* the input handler of the waste form: Waste.updateWasteSummary
EnterWeights(form) ==
  /\ wasteData' = Summary(form)
  /\ UNCHANGED <<supabase, initialized, supabaseSession, dynamicCache, fetches,
                 currentUser, session, users, dashboardUser, submissions, requests,
                 inflight, sentBy, nextId, now, listed, toast>>

\* variant: a catalog category is valued at its catalog price
pricingFromCatalog(t) ==
  IF t \in WasteTypes THEN PricePerKg(t) ELSE 5

\* the collector-facing rate table of Waste.calculateEstimatedValue
pricing(t) ==
  CASE t = "plastic" -> 15
    [] t = "paper" -> 8
    [] t = "metal" -> 25
    [] t = "glass" -> 5
    [] t = "electronic" -> 50
    [] t = "organic" -> 3
    [] OTHER -> 5

\* Waste.calculateEstimatedValue
calculateEstimatedValue(wasteTypes) ==
  RoundDiv(SumOver([t \in DOMAIN wasteTypes |-> wasteTypes[t].weight * pricing(t)],
                   DOMAIN wasteTypes), 100)

\* variant: the thresholds are exclusive
calculatePriorityAbove(totalWeight) ==
  IF totalWeight > 1000 THEN "high"
  ELSE IF totalWeight > 500 THEN "medium"
  ELSE "low"

\* Waste.calculatePriority
calculatePriority(totalWeight) ==
  IF totalWeight >= 1000 THEN "high"
  ELSE IF totalWeight >= 500 THEN "medium"
  ELSE "low"

\* variant: a submission is stored as a draft
NewSubmissionDraft(id, user, data, date) ==
  [id              |-> id,
   user_id         |-> user.id,
   date            |-> date,
   total_weight    |-> data.totalWeight,
   total_points    |-> data.totalPoints,
   total_co2_saved |-> data.totalCO2,
   waste_types     |-> data.wasteTypes,
   status          |-> "draft"]

\* the submission record of Waste.handleWasteSubmission
NewSubmission(id, user, data, date) ==
  [id              |-> id,
   user_id         |-> user.id,
   date            |-> date,
   total_weight    |-> data.totalWeight,
   total_points    |-> data.totalPoints,
   total_co2_saved |-> data.totalCO2,
   waste_types     |-> data.wasteTypes,
   status          |-> "submitted"]

\* variant: the update writes the ledger back as it was
SubmissionCreditNothing(user, data) ==
  [points    |-> OrZero(user.points),
   co2_saved |-> OrZero(user.co2_saved)]

\* the ledger update of Waste.handleWasteSubmission
SubmissionCredit(user, data) ==
  [points    |-> Plus(OrZero(user.points), data.totalPoints),
   co2_saved |-> Round2(Plus(OrZero(user.co2_saved), data.totalCO2))]

\* the request record of Waste.createPickupRequest
NewPickupRequest(id, submission, user, date) ==
  [id                |-> id,
   submission_id     |-> submission.id,
   household_id      |-> user.id,
   household_name    |-> user.name,
   household_address |-> user.address,
   household_phone   |-> user.phone,
   total_weight      |-> submission.total_weight,
   waste_types       |-> submission.waste_types,
   estimated_value   |-> calculateEstimatedValue(submission.waste_types),
   status            |-> "pending",
   created_at        |-> date,
   priority          |-> calculatePriority(submission.total_weight),
   collector_id      |-> UndefStr,
   collector_name    |-> UndefStr,
   collector_phone   |-> UndefStr,
   accepted_at       |-> Undef]

\* variant: the plastic input keeps the weight that was submitted
resetWasteFormButPlastic == [c \in Cards |-> IF c = "plastic" THEN 200 ELSE 0]

\* Waste.resetWasteForm: the inputs of the form after a successful submit
resetWasteForm == [c \in Cards |-> 0]

\* variant: the write replaces the collection by the new record alone
PushAndStoreFresh(collection, record, stored) ==
  IF stored THEN <<record>> ELSE collection

\* Utils.storage.get(key, []), push(record), Utils.storage.set(key, ...):
\* the collection afterwards, stored telling whether setItem went through
PushAndStore(collection, record, stored) ==
  IF stored THEN Append(collection, record) ELSE collection

\* Waste.handleWasteSubmission.  With the initial wasteData the weight test
\* (undefined === 0) is false, the submission is stored, the ledger update is
\* issued, and Object.entries(undefined) throws in createPickupRequest.
\* The handler is invoked with a household logged in or with nobody logged
\* in (Dashboard.loadSubmitTab hides the form from collectors).
\*   maxRequests, maxInflight : the sizes the run is cut off at
\*   submissionStored, requestStored : the results of the two calls of
\*     Utils.storage.set (false when localStorage.setItem throws); the handler
\*     reads neither
\*   submissionId, requestId : the results of the two calls of
\*     Utils.generateId
SubmitStepIds(maxRequests, maxInflight, submissionStored, requestStored, submissionId, requestId) ==
  /\ currentUser.user_type # "collector"
  /\ UNCHANGED <<supabase, initialized, supabaseSession, dynamicCache, fetches,
                 now, listed>>
  /\ IF ~isAuthenticated(currentUser)
     THEN /\ toast' = Toast("submit", Undef, "not_authenticated")
          /\ UNCHANGED <<currentUser, session, users, dashboardUser, submissions, requests,
                         wasteData, inflight, sentBy, nextId>>
     ELSE IF wasteData.totalWeight = 0
     THEN /\ toast' = Toast("submit", Undef, "no_weights")
          /\ UNCHANGED <<currentUser, session, users, dashboardUser, submissions, requests,
                         wasteData, inflight, sentBy, nextId>>
     ELSE LET submission == NewSubmission(submissionId, currentUser, wasteData, now) IN
          /\ Len(submissions) < MaxSubmissions
          /\ nextId < 2 * MaxSubmissions
          /\ wasteData.wasteTypes # UndefTypes => Len(requests) < maxRequests
          /\ Len(inflight) < maxInflight
          /\ submissions' = PushAndStore(submissions, submission, submissionStored)
          /\ UpdateUserCall(SubmissionCredit(currentUser, wasteData))
          /\ nextId' = nextId + 2
          /\ IF wasteData.wasteTypes = UndefTypes
             THEN /\ toast' = Toast("submit", Undef, "failed")
                  /\ UNCHANGED <<requests, wasteData>>
             ELSE /\ requests' = PushAndStore(requests,
                        NewPickupRequest(requestId, submission, currentUser, now),
                        requestStored)
                  /\ toast' = Toast("submit", Undef, "success")
                  /\ wasteData' = Summary(resetWasteForm)

\* Waste.handleWasteSubmission in runs where Utils.generateId never returns
\* the same identifier twice: the identifiers are numbered as handed out
SubmitStep(maxRequests, maxInflight, submissionStored, requestStored) ==
  SubmitStepIds(maxRequests, maxInflight, submissionStored, requestStored,
                nextId, nextId + 1)

\* Waste.handleWasteSubmission with a localStorage that accepts every write
HandleWasteSubmission == SubmitStep(MaxRequests, MaxInflight, TRUE, TRUE)

----------------------------------------------------------------------------
(* Waste: acceptance *)

\* variant: a missing identifier yields the last position instead of -1
findIndexOrLast(reqs, requestId) ==
  IF \E i \in 1..Len(reqs) : reqs[i].id = requestId
  THEN CHOOSE i \in 1..Len(reqs) :
         /\ reqs[i].id = requestId
         /\ \A j \in 1..(i - 1) : reqs[j].id # requestId
  ELSE Len(reqs)

\* requests.findIndex(r => r.id === requestId), 0 standing for -1
findIndex(reqs, requestId) ==
  IF \E i \in 1..Len(reqs) : reqs[i].id = requestId
  THEN CHOOSE i \in 1..Len(reqs) :
         /\ reqs[i].id = requestId
         /\ \A j \in 1..(i - 1) : reqs[j].id # requestId
  ELSE 0

\* variant: accepting stamps the creation time as well
AcceptedRequestRestamped(request, user, date) ==
  [request EXCEPT !.status = "accepted",
                  !.collector_id = user.id,
                  !.collector_name = user.name,
                  !.collector_phone = user.phone,
                  !.created_at = date,
                  !.accepted_at = date]

\* variant: accepting leaves out the collector's phone
AcceptedRequestNoPhone(request, user, date) ==
  [request EXCEPT !.status = "accepted",
                  !.collector_id = user.id,
                  !.collector_name = user.name,
                  !.accepted_at = date]

\* variant: accepting toggles the status
AcceptedRequestToggle(request, user, date) ==
  [request EXCEPT !.status = IF request.status = "pending" THEN "accepted" ELSE "pending",
                  !.collector_id = user.id,
                  !.collector_name = user.name,
                  !.collector_phone = user.phone,
                  !.accepted_at = date]

\* the record Waste.acceptPickupRequest writes over the request
AcceptedRequest(request, user, date) ==
  [request EXCEPT !.status = "accepted",
                  !.collector_id = user.id,
                  !.collector_name = user.name,
                  !.collector_phone = user.phone,
                  !.accepted_at = date]

\* variant: the credit is the request's weight, not its estimated value
AcceptCreditByWeight(user, request) ==
  [earnings   |-> Plus(OrZero(user.earnings), request.total_weight),
   jobs_today |-> Plus(OrZero(user.jobs_today), 1)]

\* variant: only a pending request is credited
AcceptCreditPendingOnly(user, request) ==
  IF request.status = "pending"
  THEN [earnings   |-> Plus(OrZero(user.earnings), request.estimated_value),
        jobs_today |-> Plus(OrZero(user.jobs_today), 1)]
  ELSE [earnings   |-> user.earnings,
        jobs_today |-> user.jobs_today]

\* variant: the update also writes the collector's points
AcceptCreditWithPoints(user, request) ==
  [earnings   |-> Plus(OrZero(user.earnings), request.estimated_value),
   jobs_today |-> Plus(OrZero(user.jobs_today), 1),
   points     |-> Plus(OrZero(user.points), request.estimated_value)]

\* the ledger update of Waste.acceptPickupRequest
AcceptCredit(user, request) ==
  [earnings   |-> Plus(OrZero(user.earnings), request.estimated_value),
   jobs_today |-> Plus(OrZero(user.jobs_today), 1)]

\* the identifiers a caller can pass: those handed out so far and one more
RequestIds == 0..nextId

\* priorityOrder of the comparator of Waste.loadPickupRequests
priorityOrder(priority) ==
  CASE priority = "high" -> 3
    [] priority = "medium" -> 2
    [] OTHER -> 1

\* variant: within a tier the older request goes first
compareRequestsOldestFirst(a, b) ==
  LET priorityDiff == priorityOrder(b.priority) - priorityOrder(a.priority) IN
  IF priorityDiff # 0 THEN priorityDiff ELSE a.created_at - b.created_at

\* the comparator of Waste.loadPickupRequests: negative when a goes first
compareRequests(a, b) ==
  LET priorityDiff == priorityOrder(b.priority) - priorityOrder(a.priority) IN
  IF priorityDiff # 0 THEN priorityDiff ELSE b.created_at - a.created_at

\* Array.prototype.sort with that comparator.  The sort is stable: x is put
\* behind every element it does not have to precede.
InsertSorted(sorted, x) ==
  LET after == {i \in 1..Len(sorted) : compareRequests(x, sorted[i]) < 0}
      k == IF after = {} THEN Len(sorted) + 1
           ELSE CHOOSE i \in after : \A j \in after : i <= j
  IN [i \in 1..(Len(sorted) + 1) |->
        IF i < k THEN sorted[i] ELSE IF i = k THEN x ELSE sorted[i - 1]]

RECURSIVE SortRequests(_)
SortRequests(reqs) ==
  IF reqs = <<>> THEN <<>>
  ELSE InsertSorted(SortRequests(SubSeq(reqs, 1, Len(reqs) - 1)), reqs[Len(reqs)])

\* variant: the listing does not filter by status
IsAnyStatus(request) == request.status \in {"pending", "accepted"}

\* request.status === 'pending'
IsPending(request) == request.status = "pending"

\* the items Waste.loadPickupRequests renders: the pending requests, sorted
loadPickupRequests(reqs) == SortRequests(SelectSeq(reqs, IsPending))

\* Waste.loadPickupRequests, called by Dashboard.loadSubmitTab for a collector
LoadPickupRequests ==
  /\ currentUser.user_type = "collector"
  /\ listed' = loadPickupRequests(requests)
  /\ UNCHANGED <<supabase, initialized, supabaseSession, dynamicCache, fetches,
                 currentUser, session, users, dashboardUser, submissions, requests,
                 wasteData, inflight, sentBy, nextId, now, toast>>

\* Waste.acceptPickupRequest(requestId)
\*   requestStored : the result of Utils.storage.set, which the handler does
\*     not read
AcceptStep(requestId, requestStored) ==
  /\ requestId \in RequestIds
  /\ UNCHANGED <<supabase, initialized, supabaseSession, dynamicCache, fetches,
                 submissions, wasteData, nextId, now>>
  /\ IF currentUser = NoUser \/ currentUser.user_type # "collector"
     THEN /\ toast' = Toast("accept", requestId, "not_collector")
          /\ UNCHANGED <<currentUser, session, users, dashboardUser, requests, inflight, sentBy, listed>>
     ELSE LET requestIndex == findIndex(requests, requestId) IN
          IF requestIndex = 0
          THEN /\ toast' = Toast("accept", requestId, "not_found")
               /\ UNCHANGED <<currentUser, session, users, dashboardUser, requests, inflight, sentBy, listed>>
          ELSE LET request == requests[requestIndex] IN
               /\ OrZero(currentUser.jobs_today) < MaxJobs
               /\ Len(inflight) < MaxInflight
               /\ requests' =
                    IF requestStored
                    THEN [requests EXCEPT ![requestIndex] =
                            AcceptedRequest(request, currentUser, now)]
                    ELSE requests
               /\ UpdateUserCall(AcceptCredit(currentUser, request))
               /\ toast' = Toast("accept", requestId, "success")
               /\ listed' = loadPickupRequests(requests')

\* Waste.acceptPickupRequest with a localStorage that accepts every write
AcceptPickupRequest(requestId) == AcceptStep(requestId, TRUE)

----------------------------------------------------------------------------
(* Specification: every handler can be invoked at any time, and suspended  *)
(* calls resume in any order.                                              *)

Next ==
  \/ \E a \in OneHousehold : Login(a)
  \/ Logout
  \/ \E c \in Contacts : SaveProfile(c)
  \/ \E form \in FormChoices : EnterWeights(form)
  \/ HandleWasteSubmission
  \/ \E requestId \in RequestIds : AcceptPickupRequest(requestId)
  \/ LoadPickupRequests
  \/ \E i \in 1..Len(inflight) : ResumeUpdateUser(i)
  \/ Tick

Spec == Init /\ [][Next]_vars

\* Sequential runs: an operation is invoked only when no Auth.updateUser call
\* is suspended, so every operation completes before the next one starts.
Quiescent == inflight = <<>>

NextSeq ==
  \/ Quiescent /\ \E a \in OneHousehold : Login(a)
  \/ Quiescent /\ Logout
  \/ Quiescent /\ \E c \in Contacts : SaveProfile(c)
  \/ Quiescent /\ \E form \in FormChoices : EnterWeights(form)
  \/ Quiescent /\ HandleWasteSubmission
  \/ Quiescent /\ \E requestId \in RequestIds : AcceptPickupRequest(requestId)
  \/ Quiescent /\ LoadPickupRequests
  \/ \E i \in 1..Len(inflight) : ResumeUpdateUser(i)
  \/ Tick

SpecSeq == Init /\ [][NextSeq]_vars

\* Runs of the households alone, cut off one request and one suspended
\* ledger update later, so that a submit can start while the ledger update
\* of an earlier submit is still suspended.
HandleWasteSubmissionOverlapping ==
  SubmitStep(MaxRequests + 1, MaxInflight + 1, TRUE, TRUE)

NextSubmit ==
  \/ \E a \in Households : Login(a)
  \/ Logout
  \/ \E form \in FormChoices : EnterWeights(form)
  \/ HandleWasteSubmissionOverlapping
  \/ \E i \in 1..Len(inflight) : ResumeUpdateUser(i)
  \/ Tick

SpecSubmit == Init /\ [][NextSubmit]_vars

\* Runs in which localStorage.setItem can throw (the quota is exceeded):
\* each write of user_submissions and of pickup_requests goes through or
\* fails, and Utils.storage.set returns false for a write that failed.
HandleWasteSubmissionStore ==
  \E submissionStored, requestStored \in BOOLEAN :
    SubmitStep(MaxRequests, MaxInflight, submissionStored, requestStored)

AcceptPickupRequestStore(requestId) ==
  \E requestStored \in BOOLEAN : AcceptStep(requestId, requestStored)

NextStore ==
  \/ \E a \in OneHousehold : Login(a)
  \/ Logout
  \/ \E form \in FormChoices : EnterWeights(form)
  \/ HandleWasteSubmissionStore
  \/ \E requestId \in RequestIds : AcceptPickupRequestStore(requestId)
  \/ \E i \in 1..Len(inflight) : ResumeUpdateUser(i)
  \/ Tick

SpecStore == Init /\ [][NextStore]_vars

\* Runs in which Utils.generateId is taken as written: the identifier is
\* made of a draw of Math.random() and of the clock reading, and nothing
\* compares it with the identifiers handed out before.  Household h1 submits
\* up to MaxRequests + 1 times.
MaxRandom == 1

generateId(random, time) == <<random, time>>

HandleWasteSubmissionIds ==
  \E random1, random2 \in 0..MaxRandom :
    SubmitStepIds(MaxRequests + 1, MaxInflight, TRUE, TRUE,
                  generateId(random1, now), generateId(random2, now))

NextIds ==
  \/ Login("h1")
  \/ Logout
  \/ \E form \in FormChoices : EnterWeights(form)
  \/ HandleWasteSubmissionIds
  \/ \E i \in 1..Len(inflight) : ResumeUpdateUser(i)
  \/ Tick

SpecIds == Init /\ [][NextIds]_vars

\* The valuation as a function of the form: household h1 is logged in, the
\* page has a card for every catalog category and one card whose type is
\* not in the catalog, and the weights typed in reach both sides of every
\* rounding and every priority threshold.
CalcCards == WasteTypes \cup {"battery"}

CalcWeights == {125, 300, 500, 700, 1200}

\* one card filled in
CalcSingle(t, w) == [c \in CalcCards |-> IF c = t THEN w ELSE 0]

\* two cards filled in
CalcPair(t1, w1, t2, w2) ==
  [c \in CalcCards |-> IF c = t1 THEN w1 ELSE IF c = t2 THEN w2 ELSE 0]

CalcForms ==
  { CalcSingle(t, w) : t \in CalcCards, w \in CalcWeights }
  \cup { CalcPair("plastic", w1, "paper", w2) : w1, w2 \in CalcWeights }
  \cup { CalcPair("plastic", 200, "paper", 100),
         CalcPair("battery", 125, "metal", 125),
         CalcSingle("plastic", 0) }

InitCalc ==
  /\ supabase = FALSE
  /\ currentUser = SignupProfile("h1")
  /\ session = JsonUser(SignupProfile("h1"))
  /\ users = [a \in Actors |-> SignupProfile(a)]
  /\ submissions = <<>>
  /\ requests = <<>>
  /\ wasteData = EmptyWasteData
  /\ inflight = <<>>
  /\ sentBy = <<>>
  /\ initialized = initSequence
  /\ supabaseSession = "null"
  /\ dashboardUser = currentUser.id
  /\ dynamicCache = <<>>
  /\ fetches = <<>>
  /\ nextId = 0
  /\ now = 0
  /\ listed = <<>>
  /\ toast = Toast("none", Undef, "none")

NextCalc ==
  \/ \E form \in CalcForms : EnterWeights(form)
  \/ HandleWasteSubmission

SpecCalc == InitCalc /\ [][NextCalc]_vars

\* The valuation followed to the accept: household h1 fills in 1.25 kg or
\* 3 kg on one card (or 1.25 kg on two), submits and logs out, and collector
\* c1 logs in and accepts what was submitted.
EstimateForms ==
  { CalcSingle(t, w) : t \in CalcCards, w \in {125, 300} }
    \cup { CalcPair("battery", 125, "metal", 125) }

NextEstimate ==
  \/ \E form \in EstimateForms : EnterWeights(form)
  \/ HandleWasteSubmission
  \/ \E a \in {"h1", "c1"} : Login(a)
  \/ Logout
  \/ \E requestId \in RequestIds : AcceptPickupRequest(requestId)

SpecEstimate == InitCalc /\ [][NextEstimate]_vars

\* Start-up.  The page loads with whatever an earlier visit left behind: a
\* Supabase session held by the Supabase client (when there is one) and a
\* profile under vangariwala_session.  VangariwalApp.init then initialises
\* the modules one after the other, and the handlers of the page run once
\* that is done.

\* Auth.handleSupabaseSignIn: the profile is built from the metadata of the
\* session's user, which holds what the signup sent
SupabaseProfile(a) ==
  [SignupProfile(a) EXCEPT !.points = OrZero(@), !.co2_saved = OrZero(@)]

handleSupabaseSignIn(a) ==
  /\ currentUser' = SupabaseProfile(a)
  /\ session' = JsonUser(currentUser')
  /\ dashboardUser' = emitEvent(currentUser')

InitComplete == initialized = initSequence

\* one turn of the loop of VangariwalApp.initializeModules: module.init() of
\* the next module.  Auth.init ends with checkExistingSession, which signs
\* in the user of a Supabase session; its localStorage fallback restores a
\* stored profile only if the email has no '@', which no stored profile
\* satisfies.  Dashboard.init registers the listeners.
InitModule ==
  /\ Len(initialized) < Len(initSequence)
  /\ LET name == initSequence[Len(initialized) + 1] IN
     /\ initialized' = Append(initialized, name)
     /\ IF name = "Auth" /\ supabase /\ supabaseSession # "null"
        THEN handleSupabaseSignIn(supabaseSession)
        ELSE UNCHANGED <<currentUser, session, dashboardUser>>
  /\ UNCHANGED <<supabase, supabaseSession, dynamicCache, fetches,
                 users, submissions, requests, wasteData, inflight, sentBy,
                 nextId, now, listed, toast>>

\* the callback of supabase.auth.onAuthStateChange is called with SIGNED_IN
AuthStateSignedIn ==
  /\ supabase
  /\ supabaseSession # "null"
  /\ handleSupabaseSignIn(supabaseSession)
  /\ UNCHANGED <<supabase, initialized, supabaseSession, dynamicCache, fetches,
                 users, submissions, requests, wasteData, inflight, sentBy,
                 nextId, now, listed, toast>>

InitBoot ==
  /\ supabase \in BOOLEAN
  /\ supabaseSession \in (IF supabase THEN {"null"} \cup OneHousehold ELSE {"null"})
  /\ currentUser = NoUser
  /\ session \in {NoUser} \cup {JsonUser(SignupProfile(a)) : a \in OneHousehold}
  /\ users = [a \in Actors |-> SignupProfile(a)]
  /\ submissions = <<>>
  /\ requests = <<>>
  /\ wasteData = EmptyWasteData
  /\ inflight = <<>>
  /\ sentBy = <<>>
  /\ initialized = <<>>
  /\ dashboardUser = "null"
  /\ dynamicCache = <<>>
  /\ fetches = <<>>
  /\ nextId = 0
  /\ now = 0
  /\ listed = <<>>
  /\ toast = Toast("none", Undef, "none")

NextBoot ==
  \/ InitModule
  \/ InitComplete /\ AuthStateSignedIn
  \/ InitComplete /\ \E a \in OneHousehold : Login(a)
  \/ InitComplete /\ Logout
  \/ InitComplete /\ \E c \in Contacts : SaveProfile(c)
  \/ \E i \in 1..Len(inflight) : ResumeUpdateUser(i)

SpecBoot == InitBoot /\ [][NextBoot]_vars

\* The service worker.  A request is a pair <<origin, n>>; the dynamic cache
\* holds what earlier visits left in it, and GET requests arrive for
\* resources that are not cached.  Every handler runs from await to await,
\* and the handlers of different requests interleave at the awaits.
MAX_DYNAMIC_CACHE_SIZE == 50

MaxFetches == 2

MaxUrls == 2

\* the entries left by earlier visits: the first n cross-origin resources
CachedEarlier(n) == [k \in 1..n |-> <<"cross", k>>]

\* the requests of this visit: same-origin resources and further
\* cross-origin resources
FetchUrls ==
  {<<"same", n>> : n \in 1..MaxUrls}
    \cup {<<"cross", MAX_DYNAMIC_CACHE_SIZE + n>> : n \in 1..MaxUrls}

InCache(cache, url) == \E k \in 1..Len(cache) : cache[k] = url

\* cache.delete(request)
cacheDelete(cache, url) == SelectSeq(cache, LAMBDA key : key # url)

\* cache.put(request, response): an entry of the same request is replaced,
\* the new entry is the last of cache.keys()
cachePut(cache, url) == Append(cacheDelete(cache, url), url)

\* a handler suspended at an await: at the network fetch, before cache.put,
\* before cache.keys() of limitCacheSize, or in its loop with the keys it
\* read and the number of cache.delete calls done
Handler(url, pc, keys, done) == [url |-> url, pc |-> pc, keys |-> keys, done |-> done]

ServiceWorkerFrame ==
  UNCHANGED <<supabase, currentUser, session, users, submissions, requests,
              wasteData, inflight, sentBy, nextId, now, listed, toast,
              initialized, supabaseSession, dashboardUser>>

\* the fetch listener with a GET request that caches.match does not find: the
\* handler goes on to the network.  (A request that is found is answered
\* from the cache and changes nothing.)
FetchEvent(url) ==
  /\ url \in FetchUrls
  /\ Len(fetches) < MaxFetches
  /\ ~InCache(dynamicCache, url)
  /\ fetches' = Append(fetches, Handler(url, "fetch", <<>>, 0))
  /\ UNCHANGED dynamicCache
  /\ ServiceWorkerFrame

\* await fetch(request) settles.  cacheable: the response is there and, for
\* a same-origin request, its status is 200; otherwise the handler returns
\* the response (or the offline answer) without caching
NetworkResponse(i, cacheable) ==
  /\ i \in 1..Len(fetches)
  /\ fetches[i].pc = "fetch"
  /\ fetches' = IF cacheable
                THEN [fetches EXCEPT ![i].pc = "put"]
                ELSE RemoveAt(fetches, i)
  /\ UNCHANGED dynamicCache
  /\ ServiceWorkerFrame

\* await cache.put(request, response).  handleCrossOriginRequest returns
\* after it, handleSameOriginRequest goes on to limitCacheSize
CachePut(i) ==
  /\ i \in 1..Len(fetches)
  /\ fetches[i].pc = "put"
  /\ dynamicCache' = cachePut(dynamicCache, fetches[i].url)
  /\ fetches' = IF fetches[i].url[1] = "same"
                THEN [fetches EXCEPT ![i].pc = "keys"]
                ELSE RemoveAt(fetches, i)
  /\ ServiceWorkerFrame

\* limitCacheSize: await cache.keys() and the test of the size
CacheKeys(i) ==
  /\ i \in 1..Len(fetches)
  /\ fetches[i].pc = "keys"
  /\ fetches' = IF Len(dynamicCache) > MAX_DYNAMIC_CACHE_SIZE
                THEN [fetches EXCEPT ![i] = Handler(@.url, "delete", dynamicCache, 0)]
                ELSE RemoveAt(fetches, i)
  /\ UNCHANGED dynamicCache
  /\ ServiceWorkerFrame

\* limitCacheSize: one await cache.delete(keys[i]) of the loop; the handler
\* returns after the last one
CacheDeleteOldest(i) ==
  /\ i \in 1..Len(fetches)
  /\ fetches[i].pc = "delete"
  /\ LET h == fetches[i]
         itemsToDelete == Len(h.keys) - MAX_DYNAMIC_CACHE_SIZE
     IN /\ dynamicCache' = cacheDelete(dynamicCache, h.keys[h.done + 1])
        /\ fetches' = IF h.done + 1 < itemsToDelete
                      THEN [fetches EXCEPT ![i].done = h.done + 1]
                      ELSE RemoveAt(fetches, i)
  /\ ServiceWorkerFrame

InitCache ==
  /\ supabase = FALSE
  /\ currentUser = NoUser
  /\ session = NoUser
  /\ users = [a \in Actors |-> SignupProfile(a)]
  /\ submissions = <<>>
  /\ requests = <<>>
  /\ wasteData = EmptyWasteData
  /\ inflight = <<>>
  /\ sentBy = <<>>
  /\ initialized = initSequence
  /\ supabaseSession = "null"
  /\ dashboardUser = "null"
  /\ dynamicCache \in { CachedEarlier(n) :
                         n \in {0, MAX_DYNAMIC_CACHE_SIZE - 1, MAX_DYNAMIC_CACHE_SIZE} }
  /\ fetches = <<>>
  /\ nextId = 0
  /\ now = 0
  /\ listed = <<>>
  /\ toast = Toast("none", Undef, "none")

NextCache ==
  \/ \E url \in FetchUrls : FetchEvent(url)
  \/ \E i \in 1..Len(fetches), cacheable \in BOOLEAN : NetworkResponse(i, cacheable)
  \/ \E i \in 1..Len(fetches) : CachePut(i)
  \/ \E i \in 1..Len(fetches) : CacheKeys(i)
  \/ \E i \in 1..Len(fetches) : CacheDeleteOldest(i)

SpecCache == InitCache /\ [][NextCache]_vars

\* The listing as a function of the stored collection: a collector is logged
\* in and pickup_requests holds up to MaxListed requests of any tier, any
\* creation time and either status, in any order; the only operation is the
\* listing.
TierForms == { Form(300, 0, 0), Form(500, 200, 0), Form(1200, 0, 0) }

ListChoices == [form : TierForms, date : 0..(MaxTime + 1), accepted : BOOLEAN]

\* the k-th submission and its request, as submit and accept store them
ListSubmission(k, choice) ==
  NewSubmission(2 * k - 2, SignupProfile("h1"), Summary(choice.form), choice.date)

ListRequest(k, choice) ==
  LET request == NewPickupRequest(2 * k - 1, ListSubmission(k, choice),
                                  SignupProfile("h1"), choice.date)
  IN IF choice.accepted
     THEN AcceptedRequest(request, SignupProfile("c1"), choice.date)
     ELSE request

ListInputs == UNION { [1..n -> ListChoices] : n \in 0..MaxListed }

InitList ==
  /\ supabase = FALSE
  /\ currentUser = SignupProfile("c1")
  /\ session = JsonUser(SignupProfile("c1"))
  /\ users = [a \in Actors |-> SignupProfile(a)]
  /\ \E input \in ListInputs :
       /\ submissions = [k \in 1..Len(input) |-> ListSubmission(k, input[k])]
       /\ requests = [k \in 1..Len(input) |-> ListRequest(k, input[k])]
       /\ nextId = 2 * Len(input)
  /\ wasteData = EmptyWasteData
  /\ inflight = <<>>
  /\ sentBy = <<>>
  /\ initialized = initSequence
  /\ supabaseSession = "null"
  /\ dashboardUser = currentUser.id
  /\ dynamicCache = <<>>
  /\ fetches = <<>>
  /\ now = MaxTime + 1
  /\ listed = <<>>
  /\ toast = Toast("none", Undef, "none")

NextList == LoadPickupRequests

SpecList == InitList /\ [][NextList]_vars

----------------------------------------------------------------------------
(* Vocabulary of the properties *)

\* the caller passes the role test of Waste.acceptPickupRequest
IsCollector(user) == user # NoUser /\ user.user_type = "collector"

\* the positions of the requests carrying an identifier
Matching(reqs, requestId) == {i \in 1..Len(reqs) : reqs[i].id = requestId}

\* the four ledger fields of a profile
LedgerOf(user) == [f \in LedgerFields |-> user[f]]

\* the ledger account of an actor: the profile object while the actor is
\* logged in, the stored profile otherwise
Ledger(a) == IF currentUser.id = a THEN LedgerOf(currentUser) ELSE LedgerOf(users[a])

\* no ledger is written and no ledger update is issued
NoLedgerMutation == UNCHANGED <<currentUser, session, users, inflight, sentBy>>

----------------------------------------------------------------------------
(* C1: once accept(r, A) has succeeded, a later accept(r, B) by the same or *)
(* a different collector fails with InvalidState, leaves r unchanged        *)
(* (status, collector identifier / name / phone, acceptance timestamp) and  *)
(* credits no ledger.                                                       *)

C1_SecondAcceptRejected ==
  [][\A requestId \in RequestIds :
       ( /\ AcceptPickupRequest(requestId)
         /\ IsCollector(currentUser)
         /\ \E i \in Matching(requests, requestId) : requests[i].status = "accepted" )
       => /\ toast'.outcome = "invalid_state"
          /\ requests' = requests
          /\ NoLedgerMutation]_vars

----------------------------------------------------------------------------
(* C2: a request is created pending, its status is pending or accepted,     *)
(* and no step of any operation takes an accepted request to another        *)
(* status or removes a request: the only status change is pending to        *)
(* accepted.                                                                *)

C2_StatusOnlyPendingToAccepted ==
  [][ /\ Len(requests') >= Len(requests)
      /\ \A i \in 1..Len(requests) :
           /\ requests'[i].id = requests[i].id
           /\ requests'[i].status \in {requests[i].status, "accepted"}
           /\ requests[i].status = "accepted" => requests'[i].status = "accepted"
      /\ \A i \in (Len(requests) + 1)..Len(requests') :
           requests'[i].status = "pending" ]_vars

\* an accepted request has been accepted again, by a collector whose profile
\* was edited in between
C2_Witness ==
  \E i \in 1..Len(requests) :
    /\ requests[i].status = "accepted"
    /\ requests[i].collector_name = "Karim"
    /\ requests[i].accepted_at > requests[i].created_at

----------------------------------------------------------------------------
(* C3: accept on an existing pending request sets its status to accepted,   *)
(* stamps the collector's identifier, name and phone and the acceptance     *)
(* time, writes it to the requests collection, and when the ledger update   *)
(* has been applied the collector's earnings have grown by exactly the      *)
(* request's estimated value and jobs_today by exactly 1, absent fields     *)
(* counting as 0 (runs in which no other operation starts before the        *)
(* update is applied).                                                      *)

\* the ledger of the logged-in collector grows by the credit for request r
C3_Credited(r) ==
  /\ currentUser'.id = currentUser.id
  /\ currentUser'.earnings = OrZero(currentUser.earnings) + r.estimated_value
  /\ currentUser'.jobs_today = OrZero(currentUser.jobs_today) + 1
  /\ currentUser'.points = currentUser.points
  /\ currentUser'.co2_saved = currentUser.co2_saved
  /\ session' = JsonUser(currentUser')

C3_AcceptStampsAndCredits ==
  [][ /\ \A requestId \in RequestIds :
           ( /\ AcceptPickupRequest(requestId)
             /\ IsCollector(currentUser)
             /\ \E i \in Matching(requests, requestId) : requests[i].status = "pending" )
           => LET i == CHOOSE k \in Matching(requests, requestId) : TRUE IN
              /\ toast' = Toast("accept", requestId, "success")
              /\ Len(requests') = Len(requests)
              /\ requests'[i].status = "accepted"
              /\ requests'[i].collector_id = currentUser.id
              /\ requests'[i].collector_name = currentUser.name
              /\ requests'[i].collector_phone = currentUser.phone
              /\ requests'[i].accepted_at = now
              /\ \/ C3_Credited(requests[i])
                 \/ supabase /\ Len(inflight') = 1 /\ currentUser' = currentUser
      /\ ( /\ inflight # <<>>
           /\ inflight' = <<>>
           /\ "earnings" \in DOMAIN inflight[1]
           /\ IsCollector(currentUser) )
         => C3_Credited(requests[CHOOSE k \in Matching(requests, toast.arg) : TRUE])
    ]_vars

\* a collector whose ledger holds the credit for the one accepted request
C3_Witness ==
  /\ IsCollector(currentUser)
  /\ inflight = <<>>
  /\ \E i \in 1..Len(requests) :
       /\ requests[i].status = "accepted"
       /\ requests[i].collector_id = currentUser.id
       /\ requests[i].estimated_value > 0
       /\ currentUser.earnings = requests[i].estimated_value
       /\ currentUser.jobs_today = 1

----------------------------------------------------------------------------
(* C4: accept with an identifier that matches no request reports NotFound   *)
(* and changes neither the requests collection, nor the submissions         *)
(* collection, nor any ledger.                                              *)

C4_UnknownRequestNotFound ==
  [][\A requestId \in RequestIds :
       ( /\ AcceptPickupRequest(requestId)
         /\ IsCollector(currentUser)
         /\ Matching(requests, requestId) = {} )
       => /\ toast' = Toast("accept", requestId, "not_found")
          /\ UNCHANGED <<requests, submissions>>
          /\ NoLedgerMutation]_vars

\* NotFound was reported while a request existed
C4_Witness ==
  /\ toast.op = "accept"
  /\ toast.outcome = "not_found"
  /\ Len(requests) > 0
  /\ Matching(requests, toast.arg) = {}

----------------------------------------------------------------------------
(* C5: every recorded submission has exactly one pickup request whose       *)
(* submission_id is that submission, and every pickup request refers to a   *)
(* recorded submission of the same household.                               *)

C5_OneRequestPerSubmission ==
  /\ \A k \in 1..Len(submissions) :
       Cardinality({i \in 1..Len(requests) :
                      requests[i].submission_id = submissions[k].id}) = 1
  /\ \A i \in 1..Len(requests) :
       \E k \in 1..Len(submissions) :
         /\ submissions[k].id = requests[i].submission_id
         /\ submissions[k].user_id = requests[i].household_id

----------------------------------------------------------------------------
(* C6: a successful submit increases the submitting household's points by   *)
(* exactly the submission's total points and its co2_saved by exactly the   *)
(* total emissions (rounded to two decimals), and changes neither earnings  *)
(* nor jobs_today of that account nor any field of another account (runs    *)
(* in which no other operation starts before the update is applied).        *)

\* the ledger of the logged-in household grows by the credit for submission s
C6_Credited(s) ==
  /\ currentUser'.id = currentUser.id
  /\ currentUser'.points = Plus(currentUser.points, s.total_points)
  /\ currentUser'.co2_saved = Round2(Plus(currentUser.co2_saved, s.total_co2_saved))
  /\ currentUser'.earnings = currentUser.earnings
  /\ currentUser'.jobs_today = currentUser.jobs_today
  /\ users' = users

C6_SubmitCreditsExactly ==
  [][ /\ ( /\ HandleWasteSubmission
           /\ toast'.outcome = "success"
           /\ Len(submissions') > Len(submissions) )
         => \/ C6_Credited(submissions'[Len(submissions')])
            \/ supabase /\ Len(inflight') = 1 /\ currentUser' = currentUser /\ users' = users
      /\ ( /\ inflight # <<>>
           /\ inflight' = <<>>
           /\ "points" \in DOMAIN inflight[1]
           /\ toast = Toast("submit", Undef, "success") )
         => C6_Credited(submissions[Len(submissions)])
    ]_vars

----------------------------------------------------------------------------
(* C7: submit invoked by an authenticated actor when no category has a      *)
(* weight > 0, the state before any weight was entered included, reports a  *)
(* validation error, appends no submission, creates no pickup request and   *)
(* changes no ledger.                                                       *)

\* no input of the form holds a positive weight
NoPositiveWeight == wasteData = EmptyWasteData \/ wasteData.totalWeight = 0

C7_EmptySubmitRejected ==
  [][ ( /\ HandleWasteSubmission
        /\ currentUser # NoUser
        /\ NoPositiveWeight )
      => /\ toast' = Toast("submit", Undef, "no_weights")
         /\ UNCHANGED <<submissions, requests>>
         /\ NoLedgerMutation ]_vars

----------------------------------------------------------------------------
(* C8: submit invoked while nobody is logged in reports that the caller is  *)
(* not authenticated and changes neither the submissions collection, nor    *)
(* the requests collection, nor any ledger.                                 *)

C8_UnauthenticatedSubmitRejected ==
  [][ ( /\ HandleWasteSubmission
        /\ currentUser = NoUser )
      => /\ toast' = Toast("submit", Undef, "not_authenticated")
         /\ UNCHANGED <<submissions, requests, wasteData>>
         /\ NoLedgerMutation ]_vars

\* the rejection was reported with weights entered in the form
C8_Witness ==
  /\ currentUser = NoUser
  /\ toast = Toast("submit", Undef, "not_authenticated")
  /\ wasteData # EmptyWasteData
  /\ wasteData.totalWeight > 0

----------------------------------------------------------------------------
(* C9: from one state to the next, in every execution (suspended ledger     *)
(* updates included), each ledger field of every account is non-decreasing  *)
(* and no account disappears.                                               *)

\* y is a number and not below x, an absent field counting as 0
NonDecreasing(x, y) == y # NaN /\ (x # NaN => OrZero(y) >= OrZero(x))

C9_LedgerNonDecreasing ==
  [][ /\ DOMAIN users' = DOMAIN users
      /\ \A a \in Actors : \A f \in LedgerFields :
           NonDecreasing(Ledger(a)[f], Ledger(a)'[f]) ]_vars

----------------------------------------------------------------------------
(* C10: two accept calls on one request both succeed and both are credited: *)
(* an accept by a collector on a request that is already accepted reports   *)
(* success and issues a credit of the request's estimated value and one     *)
(* job, so a state is reachable in which a ledger holds two credits for a   *)
(* single request.                                                          *)

C10_SecondAcceptCreditedAgain ==
  [][\A requestId \in RequestIds :
       ( /\ AcceptPickupRequest(requestId)
         /\ IsCollector(currentUser)
         /\ \E i \in Matching(requests, requestId) : requests[i].status = "accepted" )
       => LET r == requests[CHOOSE k \in Matching(requests, requestId) : TRUE]
              credit == [earnings   |-> OrZero(currentUser.earnings) + r.estimated_value,
                         jobs_today |-> OrZero(currentUser.jobs_today) + 1]
          IN /\ toast' = Toast("accept", requestId, "success")
             /\ IF supabase
                THEN inflight' = Append(inflight, credit)
                ELSE /\ currentUser'.earnings = credit.earnings
                     /\ currentUser'.jobs_today = credit.jobs_today ]_vars

\* one request exists and the collector's ledger holds two credits for it
C10_Witness ==
  /\ Len(requests) = 1
  /\ requests[1].status = "accepted"
  /\ requests[1].estimated_value > 0
  /\ IsCollector(currentUser)
  /\ currentUser.jobs_today = 2
  /\ currentUser.earnings = 2 * requests[1].estimated_value

----------------------------------------------------------------------------
(* C11: when a submit runs while the ledger update of an earlier submit, by *)
(* the same or by another household, is still suspended, nothing is lost or *)
(* overwritten: every step keeps every submission and every request that    *)
(* is in the collections, and a submit that succeeds adds exactly its own   *)
(* submission and its own request, so that after both submits both          *)
(* submissions and both requests are stored.                                *)

\* s is t with one element appended
ExtendsByOne(s, t) == Len(s) = Len(t) + 1 /\ SubSeq(s, 1, Len(t)) = t

C11_OverlappingSubmitsKeepBoth ==
  [][ /\ Len(submissions') >= Len(submissions)
      /\ SubSeq(submissions', 1, Len(submissions)) = submissions
      /\ Len(requests') >= Len(requests)
      /\ SubSeq(requests', 1, Len(requests)) = requests
      /\ ( /\ HandleWasteSubmissionOverlapping
           /\ toast' = Toast("submit", Undef, "success") )
         => /\ ExtendsByOne(submissions', submissions)
            /\ ExtendsByOne(requests', requests)
            /\ submissions'[Len(submissions')].id = nextId
            /\ submissions'[Len(submissions')].user_id = currentUser.id
            /\ requests'[Len(requests')].submission_id = nextId
            /\ requests'[Len(requests')].household_id = currentUser.id
    ]_vars

\* two households have submitted, the second while the ledger update of the
\* first was suspended; both submissions and both requests are stored
C11_Witness ==
  /\ Len(inflight) = 2
  /\ Len(submissions) = 2
  /\ Len(requests) = 2
  /\ submissions[1].user_id # submissions[2].user_id
  /\ requests[1].submission_id = submissions[1].id
  /\ requests[2].submission_id = submissions[2].id
  /\ requests[1].household_id # requests[2].household_id

----------------------------------------------------------------------------
(* C12: the listing shows the pending requests ordered by tier, high before *)
(* medium before low, and within one tier newest first; and, provided no    *)
(* two pending requests agree in both tier and creation time, the order is  *)
(* the same whatever order the requests are stored in.                      *)

TierRank(request) ==
  CASE request.priority = "high" -> 3
    [] request.priority = "medium" -> 2
    [] request.priority = "low" -> 1

\* items: high before medium before low, within a tier newest first
TierThenNewestFirst(items) ==
  \A i, j \in 1..Len(items) :
    i < j => \/ TierRank(items[i]) > TierRank(items[j])
             \/ /\ TierRank(items[i]) = TierRank(items[j])
                /\ items[i].created_at >= items[j].created_at

\* the same collection stored in every possible order
Reorderings(reqs) ==
  { [i \in 1..Len(reqs) |-> reqs[p[i]]] :
      p \in { q \in [1..Len(reqs) -> 1..Len(reqs)] :
                \A i, j \in 1..Len(reqs) : q[i] = q[j] => i = j } }

\* no two pending requests agree in tier and creation time
NoTiedPending(reqs) ==
  \A i, j \in 1..Len(reqs) :
    ( /\ i < j
      /\ reqs[i].status = "pending"
      /\ reqs[j].status = "pending" )
    => \/ reqs[i].priority # reqs[j].priority
       \/ reqs[i].created_at # reqs[j].created_at

\* the claim as stated: the order never depends on the stored order
C12_OrderIndependentOfInsertion ==
  [][ LoadPickupRequests
      => /\ TierThenNewestFirst(listed')
         /\ \A other \in Reorderings(requests) :
              loadPickupRequests(other) = listed' ]_vars

C12_OrderedAndIndependentUpToTies ==
  [][ LoadPickupRequests
      => /\ TierThenNewestFirst(listed')
         /\ \A i \in 1..Len(listed') : listed'[i].status = "pending"
         /\ NoTiedPending(requests)
              => \A other \in Reorderings(requests) :
                   loadPickupRequests(other) = listed' ]_vars

\* three pending requests without ties, two of one tier, were listed in an
\* order that is not the stored order
C12_Witness ==
  /\ Len(listed) = 3
  /\ NoTiedPending(requests)
  /\ listed # SelectSeq(requests, IsPending)
  /\ listed[1].priority = listed[2].priority
  /\ listed[1].created_at > listed[2].created_at
  /\ listed[3].priority # listed[2].priority

----------------------------------------------------------------------------
(* C13: after any sequence of operations the listing shows exactly the      *)
(* requests whose status is pending, each once: an accepted request is not  *)
(* shown, a request created since the last listing is shown, and the        *)
(* listing changes neither the requests, nor the submissions, nor any       *)
(* ledger.                                                                  *)

\* items holds every pending request of reqs once and nothing else
ExactlyThePending(items, reqs) ==
  /\ \A i \in 1..Len(reqs) :
       Cardinality({k \in 1..Len(items) : items[k] = reqs[i]})
         = IF reqs[i].status = "pending" THEN 1 ELSE 0
  /\ \A k \in 1..Len(items) : \E i \in 1..Len(reqs) : items[k] = reqs[i]

C13_ListExactlyPending ==
  [][ /\ LoadPickupRequests
         => /\ ExactlyThePending(listed', requests)
            /\ UNCHANGED <<requests, submissions>>
            /\ NoLedgerMutation
      /\ \A requestId \in RequestIds :
           ( /\ AcceptPickupRequest(requestId)
             /\ toast'.outcome = "success" )
           => ExactlyThePending(listed', requests')
    ]_vars

\* a collector's listing shows the one request a household has created
C13_Witness ==
  /\ Len(listed) = 1
  /\ Len(requests) = 1
  /\ listed[1] = requests[1]
  /\ requests[1].status = "pending"
  /\ IsCollector(currentUser)

----------------------------------------------------------------------------
(* C14: the priority of every pickup request is the tier of its total       *)
(* weight w: high if w >= 10 kg, medium if 5 kg <= w < 10 kg, low if        *)
(* w < 5 kg; 12 kg is high, 7 kg medium, 3 kg low, and the boundaries 10 kg *)
(* and 5 kg fall in the higher tier (weights in hundredths of a kilogram).  *)

C14_PriorityFromWeight ==
  \A i \in 1..Len(requests) :
    LET w == requests[i].total_weight
        tier == requests[i].priority
    IN /\ w >= 1000 => tier = "high"
       /\ (500 <= w /\ w < 1000) => tier = "medium"
       /\ w < 500 => tier = "low"
       /\ w = 1200 => tier = "high"
       /\ w = 700 => tier = "medium"
       /\ w = 300 => tier = "low"
       /\ w = SumOver([t \in DOMAIN requests[i].waste_types |->
                         requests[i].waste_types[t].weight],
                      DOMAIN requests[i].waste_types)

\* a request of exactly 10 kg, made of two categories, is high
C14_Witness ==
  \E i \in 1..Len(requests) :
    /\ requests[i].total_weight = 1000
    /\ Cardinality(DOMAIN requests[i].waste_types) = 2
    /\ requests[i].priority = "high"

----------------------------------------------------------------------------
(* C15: for every catalog category c and weight w the valuation gives       *)
(* points = round(w * pointsFactor(c)), emissions = w * emissionsFactor(c)  *)
(* rounded to 2 decimals, value = w * price(c) rounded to 2 decimals; for a *)
(* category that is not in the catalog all three are 0.                     *)

\* q is n / d rounded to the nearest integer, halves upwards
IsRounded(q, n, d) == d * q <= n + (d \div 2) /\ n + (d \div 2) < d * q + d

C15_ValueForCategory ==
  wasteData # EmptyWasteData =>
    \A c \in DOMAIN wasteData.wasteTypes :
      LET entry == wasteData.wasteTypes[c]
          w == entry.weight
      IN IF c \in WasteTypes
         THEN /\ IsRounded(entry.points, w * PointsFactor(c), 100)
              /\ IsRounded(entry.co2_saved, w * CO2Factor10(c), 10)
              /\ IsRounded(entry.taka_earned, w * PricePerKg(c), 1)
         ELSE /\ entry.points = 0
              /\ entry.co2_saved = 0
              /\ entry.taka_earned = 0

\* 1.25 kg of metal: 18.75 points round to 19, 0.125 kg of emissions to
\* 0.13; beside it a category that is not in the catalog, valued 0
C15_Witness ==
  /\ wasteData # EmptyWasteData
  /\ DOMAIN wasteData.wasteTypes = {"metal", "battery"}
  /\ wasteData.wasteTypes["metal"].weight = 125
  /\ wasteData.wasteTypes["metal"].points = 19
  /\ wasteData.wasteTypes["metal"].co2_saved = 13
  /\ wasteData.wasteTypes["battery"].weight = 125
  /\ wasteData.wasteTypes["battery"].points = 0

----------------------------------------------------------------------------
(* C16: every recorded submission includes only categories of weight > 0,   *)
(* its total weight is the sum of their weights, and its total points and   *)
(* total emissions are the sums of the per-category values, each rounded on *)
(* its own; {plastic: 2, paper: 1} gives total weight 3, total points 30,   *)
(* total emissions 2.8.                                                     *)

C16_SubmissionTotals ==
  \A k \in 1..Len(submissions) :
    LET sub == submissions[k]
        types == sub.waste_types
    IN /\ types # UndefTypes
       /\ \A c \in DOMAIN types : types[c].weight > 0
       /\ sub.total_weight = SumOver([c \in DOMAIN types |-> types[c].weight],
                                     DOMAIN types)
       /\ sub.total_points = SumOver([c \in DOMAIN types |-> types[c].points],
                                     DOMAIN types)
       /\ sub.total_co2_saved = SumOver([c \in DOMAIN types |-> types[c].co2_saved],
                                        DOMAIN types)
       /\ \A c \in DOMAIN types :
            /\ IsRounded(types[c].points,
                         types[c].weight * PointsFactor(c), 100) \/ c \notin WasteTypes
            /\ IsRounded(types[c].co2_saved,
                         types[c].weight * CO2Factor10(c), 10) \/ c \notin WasteTypes
       /\ (DOMAIN types = {"plastic", "paper"}
           /\ types["plastic"].weight = 200 /\ types["paper"].weight = 100)
          => /\ sub.total_weight = 300
             /\ sub.total_points = 30
             /\ sub.total_co2_saved = 280

----------------------------------------------------------------------------
(* C17: a submission, once in the submissions collection, is never changed  *)
(* or removed by any later step (submits, accepts, listings, profile edits, *)
(* logins), and the status of every stored submission is 'submitted'.       *)

C17_SubmissionsAppendOnly ==
  [][ /\ Len(submissions') >= Len(submissions)
      /\ SubSeq(submissions', 1, Len(submissions)) = submissions
      /\ \A k \in 1..Len(submissions') : submissions'[k].status = "submitted"
    ]_vars

\* two submissions are stored and the request of one has been accepted
C17_Witness ==
  /\ Len(submissions) = 2
  /\ \E i \in 1..Len(requests) :
       /\ requests[i].status = "accepted"
       /\ \E k \in 1..Len(submissions) : submissions[k].id = requests[i].submission_id

----------------------------------------------------------------------------
(* C18: a stored request is changed only by an accept of that request, and  *)
(* the household's name, address and phone, the total weight, the           *)
(* estimated value, the priority, the back-reference and the creation time  *)
(* in it are those of its creation: no profile edit, submit or accept       *)
(* changes them.                                                            *)

CreationFields ==
  {"id", "submission_id", "household_id", "household_name", "household_address",
   "household_phone", "total_weight", "waste_types", "estimated_value",
   "created_at", "priority"}

----------------------------------------------------------------------------
(* C19: in every reachable state a request carries the collector's          *)
(* identifier, name and phone and the acceptance time if and only if its    *)
(* status is accepted; a pending request carries none of the four.          *)

HasCollectorFields(request) ==
  /\ request.collector_id # UndefStr
  /\ request.collector_name # UndefStr
  /\ request.collector_phone # UndefStr
  /\ request.accepted_at # Undef

HasNoCollectorField(request) ==
  /\ request.collector_id = UndefStr
  /\ request.collector_name = UndefStr
  /\ request.collector_phone = UndefStr
  /\ request.accepted_at = Undef

C19_CollectorFieldsIffAccepted ==
  \A i \in 1..Len(requests) :
    /\ requests[i].status \in {"pending", "accepted"}
    /\ requests[i].status = "accepted" => HasCollectorFields(requests[i])
    /\ requests[i].status = "pending" => HasNoCollectorField(requests[i])

\* a request accepted by collector c2 some time after its creation
C19_Witness ==
  \E i \in 1..Len(requests) :
    /\ requests[i].status = "accepted"
    /\ requests[i].collector_id = "c2"
    /\ requests[i].accepted_at > requests[i].created_at
    /\ HasCollectorFields(requests[i])

----------------------------------------------------------------------------
(* C20: when a write of user_submissions or of pickup_requests fails during *)
(* a submit, or the write of pickup_requests fails during an accept of a    *)
(* pending request, the operation reports a failure, never a success.       *)

C20_StoreFailureReported ==
  [][ /\ \A submissionStored, requestStored \in BOOLEAN :
           ( /\ SubmitStep(MaxRequests, MaxInflight, submissionStored, requestStored)
             /\ isAuthenticated(currentUser)
             /\ wasteData.totalWeight # 0
             /\ \/ ~submissionStored
                \/ ~requestStored /\ wasteData.wasteTypes # UndefTypes )
           => toast'.outcome = "failed"
      /\ \A requestId \in RequestIds :
           ( /\ AcceptStep(requestId, FALSE)
             /\ IsCollector(currentUser)
             /\ \E i \in Matching(requests, requestId) : requests[i].status = "pending" )
           => toast'.outcome = "failed"
    ]_vars

----------------------------------------------------------------------------
(* C21: a submit whose write of pickup_requests fails still leaves the      *)
(* submission record in user_submissions and still credits the household:   *)
(* the record is appended, the ledger credit is applied (or issued, when    *)
(* the update suspends), and pickup_requests is unchanged.  Nothing is      *)
(* rolled back.                                                             *)

----------------------------------------------------------------------------
(* C22: identifiers are fresh: no two submissions share an identifier, no   *)
(* two pickup requests share an identifier, and so every identifier of a    *)
(* stored request addresses exactly that one request.                       *)

C22_IdentifiersFresh ==
  /\ \A i, j \in 1..Len(submissions) :
       submissions[i].id = submissions[j].id => i = j
  /\ \A i, j \in 1..Len(requests) :
       requests[i].id = requests[j].id => i = j
  /\ \A i \in 1..Len(requests) : Matching(requests, requests[i].id) = {i}

----------------------------------------------------------------------------
(* C23: a successful accept of request r changes only r and the accepting   *)
(* collector's earnings and jobs_today: every other request, every          *)
(* submission, every stored profile (the household's ledger among them),    *)
(* and every other field of the collector's profile, points and co2_saved   *)
(* included, are as before, both at the accept and when its ledger update   *)
(* is applied.                                                              *)

C23_CreditFields == {"earnings", "jobs_today"}

C23_OnlyCreditFieldsChange ==
  /\ submissions' = submissions
  /\ users' = users
  /\ \A f \in DOMAIN currentUser \ C23_CreditFields :
       currentUser'[f] = currentUser[f]

----------------------------------------------------------------------------
(* C24: the estimated value of a request is the sum over its waste types of *)
(* weight times rate, rounded to the nearest integer, with the rates        *)
(* plastic 15, paper 8, metal 25, glass 5, electronic 50, organic 3 and 5   *)
(* for any other category, whatever the catalog price; no step changes it   *)
(* once the request exists; and it is the amount a successful accept adds   *)
(* to the collector's earnings.                                             *)

C24_Rate(c) ==
  CASE c = "plastic" -> 15
    [] c = "paper" -> 8
    [] c = "metal" -> 25
    [] c = "glass" -> 5
    [] c = "electronic" -> 50
    [] c = "organic" -> 3
    [] OTHER -> 5

C24_Valued(request) ==
  LET types == request.waste_types IN
  IsRounded(request.estimated_value,
            SumOver([c \in DOMAIN types |-> types[c].weight * C24_Rate(c)],
                    DOMAIN types),
            100)

C24_EstimatedValue ==
  [][ /\ \A i \in 1..Len(requests') : C24_Valued(requests'[i])
      /\ \A i \in 1..Len(requests) :
           requests'[i].estimated_value = requests[i].estimated_value
      /\ \A requestId \in RequestIds :
           ( /\ AcceptPickupRequest(requestId)
             /\ toast'.outcome = "success" )
           => \E i \in Matching(requests, requestId) :
                currentUser'.earnings =
                  OrZero(currentUser.earnings) + requests[i].estimated_value
    ]_vars

\* 1.25 kg of a category outside the catalog and 1.25 kg of metal are worth
\* round(6.25 + 31.25) = 38, and collector c1 has earned that by accepting
C24_Witness ==
  /\ currentUser.id = "c1"
  /\ currentUser.earnings = 38
  /\ \E i \in 1..Len(requests) :
       /\ requests[i].status = "accepted"
       /\ DOMAIN requests[i].waste_types = {"battery", "metal"}
       /\ requests[i].estimated_value = 38

----------------------------------------------------------------------------
(* C25: an accept invoked with nobody logged in or by an actor who is not a *)
(* collector is rejected and changes no request, no submission and no       *)
(* ledger; and earnings and jobs_today are only ever written on the account *)
(* of a collector.                                                          *)

C25_CreditedHere ==
  /\ currentUser'.id = currentUser.id
  /\ \/ currentUser'.earnings # currentUser.earnings
     \/ currentUser'.jobs_today # currentUser.jobs_today

C25_OnlyCollectorsAcceptAndEarn ==
  [][ /\ \A requestId \in RequestIds :
           ( /\ AcceptPickupRequest(requestId)
             /\ ~IsCollector(currentUser) )
           => /\ toast'.outcome = "not_collector"
              /\ UNCHANGED <<requests, submissions, listed>>
              /\ NoLedgerMutation
      /\ C25_CreditedHere => currentUser.user_type = "collector"
      /\ \A a \in Actors :
           /\ users'[a].earnings = users[a].earnings
           /\ users'[a].jobs_today = users[a].jobs_today
    ]_vars

----------------------------------------------------------------------------
(* C26: whenever no ledger update is suspended, every household's points    *)
(* exceed their initial value by exactly the sum of the total points of the *)
(* submissions recorded for that household, and likewise its co2_saved by   *)
(* the sum of their total emissions saved, also after submits that          *)
(* overlapped a suspended update.                                           *)

\* the sum of a field over the records whose key field names the owner
RECURSIVE TotalOf(_, _, _, _)
TotalOf(records, key, owner, field) ==
  IF records = <<>> THEN 0
  ELSE Plus(IF Head(records)[key] = owner THEN Head(records)[field] ELSE 0,
            TotalOf(Tail(records), key, owner, field))

\* x is a number and equals initial + total
Conserved(x, initial, total) ==
  /\ x \notin {Undef, NaN}
  /\ x = Plus(OrZero(initial), total)

C26_HouseholdLedgerConserved ==
  Quiescent =>
    \A h \in Households :
      /\ Conserved(Ledger(h).points, SignupProfile(h).points,
                   TotalOf(submissions, "user_id", h, "total_points"))
      /\ Conserved(Ledger(h).co2_saved, SignupProfile(h).co2_saved,
                   TotalOf(submissions, "user_id", h, "total_co2_saved"))

----------------------------------------------------------------------------
(* C27: whenever no ledger update is suspended, every collector's earnings  *)
(* exceed their initial value by exactly the sum of the estimated values of *)
(* the accepted requests that carry the collector's id, and jobs_today by   *)
(* the number of those requests.                                            *)

C27_CollectorLedgerConserved ==
  Quiescent =>
    \A c \in Collectors :
      /\ Conserved(Ledger(c).earnings, SignupProfile(c).earnings,
                   TotalOf(requests, "collector_id", c, "estimated_value"))
      /\ Conserved(Ledger(c).jobs_today, SignupProfile(c).jobs_today,
                   Cardinality({i \in 1..Len(requests) :
                                  /\ requests[i].status = "accepted"
                                  /\ requests[i].collector_id = c}))

----------------------------------------------------------------------------
(* C28: a ledger credit is written only into the account of the actor whose *)
(* submit or accept issued it: when a suspended ledger update is applied    *)
(* and changes a profile, that profile is the one the update was sent for.  *)

C28_CreditToItsActor ==
  [][ \A i \in 1..Len(inflight) :
        ( /\ ResumeUpdateUser(i)
          /\ DOMAIN inflight[i] \cap LedgerFields # {}
          /\ currentUser' # currentUser )
        => currentUser.id = sentBy[i]
    ]_vars

----------------------------------------------------------------------------
(* C29: credits are durable across sessions: when an actor logs out, the    *)
(* profile stored for that actor, which is what the actor's next login      *)
(* reads, holds the ledger the actor has at that moment.                    *)

C29_LedgerStoredAtLogout ==
  [][ ( /\ Logout
        /\ currentUser # NoUser )
      => LedgerOf(users'[currentUser.id]) = LedgerOf(JsonUser(currentUser))
    ]_vars

----------------------------------------------------------------------------
(* C30: a successful submit clears the pending input, and a submit invoked  *)
(* again by the household before any weight is entered is rejected as      *)
(* having no weights and records nothing.                                   *)

C30_SubmitClearsInput ==
  [][ /\ ( /\ HandleWasteSubmission
           /\ toast'.outcome = "success" )
         => /\ wasteData'.totalWeight = 0
            /\ wasteData'.totalPoints = 0
            /\ DOMAIN wasteData'.wasteTypes = {}
      /\ ( /\ HandleWasteSubmission
           /\ isAuthenticated(currentUser)
           /\ toast = Toast("submit", Undef, "success")
           /\ wasteData.totalWeight = 0 )
         => /\ toast'.outcome = "no_weights"
            /\ UNCHANGED <<submissions, requests, wasteData>>
            /\ NoLedgerMutation
    ]_vars

\* household h1 has one submission of 30 points with its request, the form
\* is empty and the last submit was rejected for having no weights
C30_Witness ==
  /\ currentUser.id = "h1"
  /\ toast = Toast("submit", Undef, "no_weights")
  /\ wasteData.totalWeight = 0
  /\ Len(submissions) = 1
  /\ submissions[1].total_points = 30
  /\ Len(requests) = 1

----------------------------------------------------------------------------
(* C31: start-up initialises the modules in the order UI, Auth, Dashboard,  *)
(* Waste, and once all four are initialised Dashboard.currentUser is the    *)
(* authenticated actor whenever an actor is logged in: every login event,   *)
(* the one of a session found during Auth's initialisation included, has    *)
(* reached the Dashboard listener.                                          *)

C31_DashboardFollowsAuth ==
  /\ initialized = SubSeq(<<"UI", "Auth", "Dashboard", "Waste">>, 1, Len(initialized))
  /\ ( /\ initialized = <<"UI", "Auth", "Dashboard", "Waste">>
       /\ currentUser # NoUser )
     => dashboardUser = currentUser.id

----------------------------------------------------------------------------
(* C32: whenever no fetch handler of the service worker is suspended, the   *)
(* dynamic cache holds at most MAX_DYNAMIC_CACHE_SIZE = 50 entries, and an  *)
(* entry that is evicted is the oldest one.                                 *)

C32_DynamicCacheBounded ==
  [][ /\ fetches' = <<>> => Len(dynamicCache') <= 50
      /\ Len(dynamicCache') < Len(dynamicCache) =>
           dynamicCache' = Tail(dynamicCache)
    ]_vars

====
